---- MODULE Spec2Model ----
(***************************************************************************)
(* Liquefaction Report Generator (src/app.py): the classifier, the chart   *)
(* renderer, the booklet assembler and the Streamlit script around them.   *)
(*                                                                         *)
(* Units.  FL values are in hundredths (0.75 is 75, 1.0 is 100, 1.2 is     *)
(* 120, 0.1 is 10).  Page geometry is in millimetres.                      *)
(***************************************************************************)
EXTENDS Integers, Sequences, FiniteSets, TLC

VARIABLES
    pc,         \* position of the running call / script
    call,       \* arguments of the classifier call: [fl, ground_type]
    ret,        \* what the classifier returned: [risk_level, suggestion]
    df,         \* the table: a sequence of site records
    columns,    \* the optional columns the table has: a subset of {"lat","lon"}
    project,    \* the cover texts (project, author, date): "latin1" or "unicode"
    edits,      \* number of grid edits made in this session
    charts,     \* the images rendered last: [bar, loc]
    tmpfiles,   \* temporary files that exist on disk: set of [name, data]
    paths,      \* build_pdf_booklet's locals bar_png, loc_png (file names, 0 = unset)
    pdf,        \* the Booklet object: [page, y, log]
    result      \* what build_pdf_booklet gave back: [exc, pages]

vars == <<pc, call, ret, df, columns, project, edits, charts, tmpfiles, paths, pdf, result>>

(***************************************************************************)
(* Bounds of the model.                                                    *)
(***************************************************************************)
MaxStrLen == 4
MaxFL == 150
MaxRows == 34
MaxVariedRows == 2
MaxNoteLines == 40
MaxCsvRows == 1
MaxEdits == 2

(***************************************************************************)
(* Floating-point values with the missing-value sentinel.                  *)
(***************************************************************************)
NaN == [isna |-> TRUE, v |-> 0]

Num(v) == [isna |-> FALSE, v |-> v]

\* pd.isna
isna(x) == x.isna

\* float <  and  > : every ordering comparison with NaN is false
Lt(a, b) == ~a.isna /\ ~b.isna /\ a.v < b.v

Gt(a, b) == ~a.isna /\ ~b.isna /\ a.v > b.v

\* float + : NaN propagates
Add(a, b) == IF a.isna \/ b.isna THEN NaN ELSE Num(a.v + b.v)

(***************************************************************************)
(* Ground-type cell values: a string, None, or the float NaN that          *)
(* pd.read_csv leaves for a blank cell.                                    *)
(***************************************************************************)
Str(s) == [tag |-> "str", s |-> s]

None == [tag |-> "None", s |-> <<>>]

NaNCell == [tag |-> "nan", s |-> <<>>]

\* Python truthiness: None and "" are falsy, a float NaN is truthy
Truthy(g) == IF g.tag = "None" THEN FALSE
             ELSE IF g.tag = "str" THEN g.s # <<>>
             ELSE TRUE

\* Python  a or b
Or(a, b) == IF Truthy(a) THEN a ELSE b

Chars == {"S", "s", "o", "f", "T", "x"}

\* str.lower on one character
LowerChar(c) == IF c = "S" THEN "s" ELSE IF c = "T" THEN "t" ELSE IF c = "M" THEN "m" ELSE c

\* str.lower
Lower(s) == [i \in 1..Len(s) |-> LowerChar(s[i])]

\* Python  sub in s  for strings
Contains(s, sub) ==
    \E i \in 1..(Len(s) - Len(sub) + 1) : SubSeq(s, i, i + Len(sub) - 1) = sub

Ret(v) == [exc |-> "none", val |-> v]

Raise(e) == [exc |-> e, val |-> ""]

(***************************************************************************)
(* Classifier.                                                             *)
(***************************************************************************)
compute_risk_level_le(x) ==
    IF isna(x) THEN "Unknown"
    ELSE IF ~Gt(x, Num(75)) THEN "High"
    ELSE IF Lt(x, Num(100)) THEN "Moderate"
    ELSE "Low"

compute_risk_level(x) ==
    IF isna(x) THEN "Unknown"
    ELSE IF Lt(x, Num(75)) THEN "High"
    ELSE IF Lt(x, Num(100)) THEN "Moderate"
    ELSE "Low"

suggest_foundation_case_sensitive(x, g) ==
    IF isna(x) THEN Ret("Review required")
    ELSE LET o == Or(g, Str(<<>>)) IN
         IF o.tag # "str" THEN Raise("AttributeError")
         ELSE LET gt == o.s IN
              IF Lt(x, Num(75)) THEN Ret("Pile foundation + Ground improvement")
              ELSE IF Lt(x, Num(100)) THEN Ret("Raft foundation + Partial improvement")
              ELSE IF ~Contains(gt, <<"s", "o", "f", "t">>)
                   THEN Ret("Spread/Strip foundation")
                   ELSE Ret("Raft foundation + Monitoring")

\* line 28 runs for every non-missing FL: (ground_type or "").lower() raises
\* AttributeError when ground_type is a float NaN, which is truthy
suggest_foundation(x, g) ==
    IF isna(x) THEN Ret("Review required")
    ELSE LET o == Or(g, Str(<<>>)) IN
         IF o.tag # "str" THEN Raise("AttributeError")
         ELSE LET gt == Lower(o.s) IN
              IF Lt(x, Num(75)) THEN Ret("Pile foundation + Ground improvement")
              ELSE IF Lt(x, Num(100)) THEN Ret("Raft foundation + Partial improvement")
              ELSE IF ~Contains(gt, <<"s", "o", "f", "t">>)
                   THEN Ret("Spread/Strip foundation")
                   ELSE Ret("Raft foundation + Monitoring")

(***************************************************************************)
(* Idle values of the state the classifier calls do not touch.             *)
(***************************************************************************)
NoImage == [kind |-> "none", ylim |-> Num(0)]

NoCharts == [bar |-> NoImage, loc |-> NoImage]

NewPdf == [page |-> 0, y |-> 0, log |-> <<>>, images |-> <<>>]

NoResult == [exc |-> "none", pages |-> 0]

NoCall == [fl |-> NaN, ground_type |-> None]

NoRet == [risk_level |-> "", suggestion |-> Ret("")]

NoPaths == [bar_png |-> 0, loc_png |-> 0]

(***************************************************************************)
(* Site records.  note is the number of lines the remark wraps to in the   *)
(* remarks block (0: missing or blank after strip); text tells whether the *)
(* built-in Helvetica font can encode the record's texts: "latin1" (all of *)
(* them), "unicode_id" (not the id), "unicode_note" (not the remark).      *)
(***************************************************************************)
SiteRow(i, x, g, n, t) ==
    [id |-> i, FL |-> x, ground_type |-> g,
     risk_level |-> compute_risk_level(x),
     suggestion |-> suggest_foundation(x, g).val,
     note |-> n, text |-> t]

(***************************************************************************)
(* Chart renderer.                                                         *)
(***************************************************************************)
RECURSIVE PyMaxFrom(_, _, _)
\* the builtin max over a list: keep m, replace it when an item compares greater
PyMaxFrom(xs, i, m) ==
    IF i > Len(xs) THEN m
    ELSE PyMaxFrom(xs, i + 1, IF Gt(xs[i], m) THEN xs[i] ELSE m)

PyMax(xs) == PyMaxFrom(xs, 2, xs[1])

FLColumn(table) == [i \in 1..Len(table) |-> table[i].FL]

\* line 61: max(fls) raises ValueError on an empty list
plot_fl_bar(table) ==
    IF Len(table) = 0
    THEN [exc |-> "ValueError: max() arg is an empty sequence", img |-> NoImage]
    ELSE [exc |-> "none",
          img |-> [kind |-> "bar",
                   ylim |-> PyMax(<<Num(120), Add(PyMax(FLColumn(table)), Num(10))>>)]]

plot_locations_scatter_any(table, cols) ==
    IF ~("lat" \in cols \/ "lon" \in cols)
    THEN [kind |-> "placeholder", ylim |-> Num(0)]
    ELSE [kind |-> "scatter", ylim |-> Num(0)]

plot_locations_scatter(table, cols) ==
    IF ~({"lat", "lon"} \subseteq cols)
    THEN [kind |-> "placeholder", ylim |-> Num(0)]
    ELSE [kind |-> "scatter", ylim |-> Num(0)]

\* NamedTemporaryFile(delete=False): a new file that nothing ever unlinks
TmpName(files) == Cardinality(files) + 1

save_bytes_to_tmp_png(files, data) == files \cup {[name |-> TmpName(files), data |-> data]}

(***************************************************************************)
(* Booklet (fpdf2, A4 portrait, millimetres).                              *)
(***************************************************************************)
PageHeight == 297
TopMargin == 10
BottomMargin == 15
CellWidth == 188

PageBreakTrigger == PageHeight - BottomMargin

Ev(step, i, id, coords) == [step |-> step, i |-> i, id |-> id, coords |-> coords]

add_page(p, ev) == [p EXCEPT !.page = @ + 1, !.y = TopMargin, !.log = Append(@, ev)]

cell_no_break(p, h) == [p EXCEPT !.y = @ + h]

\* cell(0, h, ..., ln=1) under set_auto_page_break(auto=True, margin=15)
cell(p, h) ==
    LET q == IF p.y + h > PageBreakTrigger
             THEN add_page(p, Ev("auto", 0, 0, FALSE))
             ELSE p
    IN  [q EXCEPT !.y = @ + h]

ln(p, h) == [p EXCEPT !.y = @ + h]

\* n automatic page breaks in a row
AutoBreaks(n) == [k \in 1..n |-> Ev("auto", 0, 0, FALSE)]

\* multi_cell(0, h, text) for a text that wraps to the given number of lines.
\* Each line is a cell of its own with its own page-break test: the lines that
\* still fit go on the current page, the others fill new pages from the top.
multi_cell(p, h, lines) ==
    LET here == IF p.y + h > PageBreakTrigger THEN 0 ELSE (PageBreakTrigger - p.y) \div h
        perPage == (PageBreakTrigger - TopMargin) \div h
        rest == lines - here
        more == (rest + perPage - 1) \div perPage
    IN  IF lines <= here
        THEN [p EXCEPT !.y = @ + lines * h]
        ELSE [p EXCEPT !.page = @ + more,
                       !.y = TopMargin + (rest - (more - 1) * perPage) * h,
                       !.log = @ \o AutoBreaks(more)]

\* width in mm of "Design Recommendation: " + s in Helvetica 12
RecommendationWidth(s) ==
    CASE s = "Pile foundation + Ground improvement" -> 123
      [] s = "Raft foundation + Partial improvement" -> 122
      [] s = "Raft foundation + Monitoring" -> 104
      [] s = "Spread/Strip foundation" -> 95
      [] s = "Review required" -> 81
      [] OTHER -> 60

WrappedLines(w) == IF w <= CellWidth THEN 1 ELSE (w + CellWidth - 1) \div CellWidth

Ok(p) == [exc |-> "none", pdf |-> p]

Fail(e, p) == [exc |-> e, pdf |-> p]

Unencodable == "FPDFUnicodeEncodingException"

\* lines 98-109; the built-in font encodes Latin-1 only
add_cover(p, proj) ==
    LET p1 == ln(cell(ln(add_page(p, Ev("cover", 0, 0, FALSE)), 40), 12), 4)
    IN  IF proj # "latin1" THEN Fail(Unencodable, p1)
        ELSE Ok(cell(cell(ln(cell(p1, 10), 10), 8), 8))

\* lines 118-120: the loop, as the state after each record
toc_lines(p, table) ==
    LET after[i \in 0..Len(table)] ==
            IF i = 0 THEN Ok(p)
            ELSE LET prev == after[i - 1]
                     q == cell(prev.pdf, 8)
                 IN  IF prev.exc # "none" THEN prev
                     ELSE IF table[i].text = "unicode_id" THEN Fail(Unencodable, prev.pdf)
                     ELSE Ok([q EXCEPT !.log = Append(@, Ev("toc_line", i, table[i].id, FALSE))])
    IN  after[Len(table)]

add_toc(p, table) ==
    toc_lines(ln(cell(add_page(p, Ev("toc", 0, 0, FALSE)), 10), 2), table)

FileData(files, name) == {f.data : f \in {g \in files : g.name = name}}

\* lines 123-131; image() with an explicit y never breaks the page
add_overview_charts(p, bar_png_path, loc_png_path, files) ==
    LET p1 == ln(cell(add_page(p, Ev("overview", 0, 0, FALSE)), 8), 2)
    IN  IF FileData(files, bar_png_path) = {} \/ FileData(files, loc_png_path) = {}
        THEN Fail("FileNotFoundError", p1)
        ELSE Ok(ln([p1 EXCEPT !.images =
                        @ \o <<CHOOSE d \in FileData(files, bar_png_path) : TRUE,
                               CHOOSE d \in FileData(files, loc_png_path) : TRUE>>], 100))

site_page_any(p, r, i, cols) ==
    LET hasxy == "lat" \in cols \/ "lon" \in cols
        p0 == add_page(p, Ev("site", i, r.id, hasxy))
        p1 == cell(p0, 8)
        p2 == IF hasxy THEN cell(p1, 7) ELSE p1
        p3 == cell(cell(cell(p2, 7), 7), 7)
        p4 == ln(multi_cell(p3, 7, WrappedLines(RecommendationWidth(r.suggestion))), 2)
    IN  IF r.text = "unicode_id" THEN Fail(Unencodable, [p0 EXCEPT !.log[Len(p0.log)].coords = FALSE])
        ELSE IF r.note = 0 THEN Ok(p4)
        ELSE IF r.text = "unicode_note" THEN Fail(Unencodable, p4)
        ELSE Ok(multi_cell(p4, 6, r.note))

\* lines 136-150: one record's page; the coords field of its event tells
\* whether the coordinates line (line 141) was printed on it
site_page(p, r, i, cols) ==
    LET hasxy == "lat" \in cols /\ "lon" \in cols
        p0 == add_page(p, Ev("site", i, r.id, hasxy))
        p1 == cell(p0, 8)
        p2 == IF hasxy THEN cell(p1, 7) ELSE p1
        p3 == cell(cell(cell(p2, 7), 7), 7)
        p4 == ln(multi_cell(p3, 7, WrappedLines(RecommendationWidth(r.suggestion))), 2)
    IN  IF r.text = "unicode_id" THEN Fail(Unencodable, [p0 EXCEPT !.log[Len(p0.log)].coords = FALSE])
        ELSE IF r.note = 0 THEN Ok(p4)
        ELSE IF r.text = "unicode_note" THEN Fail(Unencodable, p4)
        ELSE Ok(multi_cell(p4, 6, r.note))

\* lines 135-150: the loop, as the state after each record
add_site_pages(p, table, cols) ==
    LET after[i \in 0..Len(table)] ==
            IF i = 0 THEN Ok(p)
            ELSE LET prev == after[i - 1]
                 IN  IF prev.exc # "none" THEN prev
                     ELSE site_page(prev.pdf, table[i], i, cols)
    IN  after[Len(table)]

(***************************************************************************)
(* build_pdf_booklet, one action per statement of lines 154-168.           *)
(***************************************************************************)
EmptyTableError == "ValueError: Cannot generate report: No site data provided"

BuildCheck_unchecked ==
    /\ pc = "b_check"
    /\ pc' = "b_bar"
    /\ UNCHANGED <<call, ret, df, columns, project, edits, charts, tmpfiles, paths, pdf, result>>

\* lines 154-155
BuildCheck ==
    /\ pc = "b_check"
    /\ IF Len(df) = 0
       THEN /\ pc' = "raised"
            /\ result' = [exc |-> EmptyTableError, pages |-> 0]
       ELSE /\ pc' = "b_bar"
            /\ UNCHANGED result
    /\ UNCHANGED <<call, ret, df, columns, project, edits, charts, tmpfiles, paths, pdf>>

\* line 157
RenderBar ==
    /\ pc = "b_bar"
    /\ LET r == plot_fl_bar(df) IN
       IF r.exc # "none"
       THEN /\ pc' = "raised"
            /\ result' = [exc |-> r.exc, pages |-> 0]
            /\ UNCHANGED <<charts, tmpfiles, paths>>
       ELSE /\ pc' = "b_loc"
            /\ charts' = [charts EXCEPT !.bar = r.img]
            /\ tmpfiles' = save_bytes_to_tmp_png(tmpfiles, r.img)
            /\ paths' = [paths EXCEPT !.bar_png = TmpName(tmpfiles)]
            /\ UNCHANGED result
    /\ UNCHANGED <<call, ret, df, columns, project, edits, pdf>>

\* lines 158-161
RenderLoc ==
    /\ pc = "b_loc"
    /\ LET img == plot_locations_scatter(df, columns) IN
       /\ charts' = [charts EXCEPT !.loc = img]
       /\ tmpfiles' = save_bytes_to_tmp_png(tmpfiles, img)
       /\ paths' = [paths EXCEPT !.loc_png = TmpName(tmpfiles)]
    /\ pdf' = NewPdf
    /\ pc' = "b_cover"
    /\ UNCHANGED <<call, ret, df, columns, project, edits, result>>

\* one assembling statement: on an exception the call is left with the pages so far
Assemble(r, next) ==
    /\ pdf' = r.pdf
    /\ IF r.exc # "none"
       THEN /\ pc' = "raised"
            /\ result' = [exc |-> r.exc, pages |-> 0]
       ELSE /\ pc' = next
            /\ UNCHANGED result
    /\ UNCHANGED <<call, ret, df, columns, project, edits, charts, tmpfiles, paths>>

\* line 163
Cover == pc = "b_cover" /\ Assemble(add_cover(pdf, project), "b_toc")

\* line 164
Toc == pc = "b_toc" /\ Assemble(add_toc(pdf, df), "b_overview")

\* line 165
Overview ==
    /\ pc = "b_overview"
    /\ Assemble(add_overview_charts(pdf, paths.bar_png, paths.loc_png, tmpfiles), "b_sites")

\* line 166
SitePages == pc = "b_sites" /\ Assemble(add_site_pages(pdf, df, columns), "b_output")

\* line 168
Output ==
    /\ pc = "b_output"
    /\ result' = [exc |-> "none", pages |-> pdf.page]
    /\ pc' = "done"
    /\ UNCHANGED <<call, ret, df, columns, project, edits, charts, tmpfiles, paths, pdf>>

NextBuild ==
    \/ BuildCheck
    \/ RenderBar
    \/ RenderLoc
    \/ Cover
    \/ Toc
    \/ Overview
    \/ SitePages
    \/ Output

(***************************************************************************)
(* SpecClassify: one call of each classifier function on drawn inputs.     *)
(***************************************************************************)
Strings(n) == UNION {[1..k -> Chars] : k \in 0..n}

FLValues == {NaN} \cup {Num(v) : v \in {-1, 0, 74, 75, 76, 99, 100, 101, MaxFL}}

GroundTypes == {Str(s) : s \in Strings(MaxStrLen)} \cup {None, NaNCell}

InitClassify ==
    /\ pc = "call"
    /\ call \in [fl : FLValues, ground_type : GroundTypes]
    /\ ret = NoRet
    /\ df = <<>>
    /\ columns = {}
    /\ project = "latin1"
    /\ edits = 0
    /\ charts = NoCharts
    /\ tmpfiles = {}
    /\ paths = NoPaths
    /\ pdf = NewPdf
    /\ result = NoResult

CallComputeRisk ==
    /\ pc = "call"
    /\ ret' = [ret EXCEPT !.risk_level = compute_risk_level(call.fl)]
    /\ pc' = "risk"
    /\ UNCHANGED <<call, df, columns, project, edits, charts, tmpfiles, paths, pdf, result>>

CallSuggestFoundation ==
    /\ pc = "risk"
    /\ ret' = [ret EXCEPT !.suggestion = suggest_foundation(call.fl, call.ground_type)]
    /\ pc' = "returned"
    /\ UNCHANGED <<call, df, columns, project, edits, charts, tmpfiles, paths, pdf, result>>

NextClassify == CallComputeRisk \/ CallSuggestFoundation

SpecClassify == InitClassify /\ [][NextClassify]_vars

(***************************************************************************)
(* SpecBuild: one call of build_pdf_booklet on a drawn table.  Tables of   *)
(* up to MaxVariedRows records take every combination of rows; longer      *)
(* tables, up to MaxRows records, repeat one row.                          *)
(***************************************************************************)
RemarksStartY == TopMargin + 8 + 7 + 7 + 7 + 7 + 7 + 2

FitNoteLines == (PageBreakTrigger - RemarksStartY) \div 6

NoteChoices == {0, FitNoteLines, MaxNoteLines}

RowTexts(n) == IF n = 0 THEN {"latin1", "unicode_id"}
               ELSE {"latin1", "unicode_id", "unicode_note"}

BuildRows ==
    UNION {{SiteRow(0, x, Str(<<"S", "o", "f", "T">>), n, t) :
               x \in {NaN, Num(50), Num(MaxFL)}, t \in RowTexts(n)} : n \in NoteChoices}

WithIds(rows) == [i \in 1..Len(rows) |-> [rows[i] EXCEPT !.id = i]]

BuildTables ==
    {WithIds(rows) : rows \in UNION {[1..k -> BuildRows] : k \in 0..MaxVariedRows}}
    \cup {WithIds([i \in 1..k |-> r]) : k \in 0..MaxRows, r \in BuildRows}

InitBuild ==
    /\ pc = "b_check"
    /\ call = NoCall
    /\ ret = NoRet
    /\ df \in BuildTables
    /\ columns \in SUBSET {"lat", "lon"}
    /\ project \in {"latin1", "unicode"}
    /\ edits = 0
    /\ charts = NoCharts
    /\ tmpfiles = {}
    /\ paths = NoPaths
    /\ pdf = NewPdf
    /\ result = NoResult

SpecBuild == InitBuild /\ [][NextBuild]_vars

(***************************************************************************)
(* The Streamlit script, lines 196-240.                                    *)
(***************************************************************************)
\* cells of an uploaded FL column before pd.to_numeric
RawNum(v) == [cell |-> "number", v |-> v]

RawBlank == [cell |-> "blank", v |-> 0]

RawText == [cell |-> "text", v |-> 0]

\* pd.to_numeric(errors="coerce") on one cell: a float stays, a numeric text
\* parses, anything else becomes NaN
to_numeric(c) ==
    IF "isna" \in DOMAIN c THEN c
    ELSE IF c.cell = "number" THEN Num(c.v)
    ELSE NaN

RawRow(i, c, g) == [id |-> i, FL |-> c, ground_type |-> g, note |-> 0, text |-> "latin1"]

\* lines 171-176
get_sample_df ==
    <<RawRow(1, Num(81), Str(<<"S", "o", "f", "t", " ", "g", "r", "o", "u", "n", "d">>)),
      RawRow(2, Num(115), Str(<<"M", "e", "d", "i", "u", "m">>)),
      RawRow(3, Num(95), Str(<<"S", "o", "f", "t", " ", "g", "r", "o", "u", "n", "d">>))>>

derive_row_keep_suggestion(r) ==
    [id |-> r.id, FL |-> to_numeric(r.FL), ground_type |-> r.ground_type,
     risk_level |-> compute_risk_level(to_numeric(r.FL)),
     suggestion |-> IF "suggestion" \in DOMAIN r THEN r.suggestion
                    ELSE suggest_foundation(to_numeric(r.FL), r.ground_type).val,
     note |-> r.note, text |-> r.text]

\* lines 185-188 and 217-219 on one record
derive_row(r) ==
    [id |-> r.id, FL |-> to_numeric(r.FL), ground_type |-> r.ground_type,
     risk_level |-> compute_risk_level(to_numeric(r.FL)),
     suggestion |-> suggest_foundation(to_numeric(r.FL), r.ground_type).val,
     note |-> r.note, text |-> r.text]

\* the derived-column pass raises when suggest_foundation raises on a record
PassRaises(table) ==
    \E i \in 1..Len(table) :
        suggest_foundation(to_numeric(table[i].FL), table[i].ground_type).exc # "none"

derive(table) == [i \in 1..Len(table) |-> derive_row(table[i])]

\* the project text input defaults to "Funabashi City \u2013 2025" (line 198),
\* which is not Latin-1; the user may type another name
InitApp ==
    /\ pc = "a_intake"
    /\ call = NoCall
    /\ ret = NoRet
    /\ df = <<>>
    /\ columns = {}
    /\ project \in {"unicode", "latin1"}
    /\ edits = 0
    /\ charts = NoCharts
    /\ tmpfiles = {}
    /\ paths = NoPaths
    /\ pdf = NewPdf
    /\ result = NoResult

AppFrame == UNCHANGED <<call, ret, project, tmpfiles, paths, pdf, result>>

CsvRows ==
    {RawRow(0, c, g) : c \in {RawNum(50), RawNum(MaxFL), RawBlank, RawText},
                       g \in {Str(<<"S", "o", "f", "T">>), NaNCell}}

CsvTables == {WithIds(rows) : rows \in UNION {[1..k -> CsvRows] : k \in 0..MaxCsvRows}}

\* lines 205-207
Upload ==
    /\ pc = "a_intake"
    /\ df' \in CsvTables
    /\ columns' \in SUBSET {"lat", "lon"}
    /\ pc' = "a_ensure"
    /\ UNCHANGED <<edits, charts>>
    /\ AppFrame

\* lines 208-210
UseSample ==
    /\ pc = "a_intake"
    /\ df' = get_sample_df
    /\ columns' = {"lat", "lon"}
    /\ pc' = "a_ensure"
    /\ UNCHANGED <<edits, charts>>
    /\ AppFrame

\* line 212, ensure_columns
EnsureColumns ==
    /\ pc = "a_ensure"
    /\ IF PassRaises(df)
       THEN pc' = "crashed" /\ UNCHANGED df
       ELSE pc' = "a_editor" /\ df' = derive(df)
    /\ UNCHANGED <<columns, edits, charts>>
    /\ AppFrame

\* line 215: what the user does in the grid before the script goes on
Editing == pc = "a_editor" /\ edits < MaxEdits

Edited(table) ==
    /\ df' = table
    /\ edits' = edits + 1
    /\ pc' = "a_editor"
    /\ UNCHANGED <<columns, charts>>
    /\ AppFrame

EditFL ==
    /\ Editing
    /\ \E i \in 1..Len(df), x \in {NaN, Num(50), Num(MaxFL)} :
          Edited([df EXCEPT ![i].FL = x])

EditGroundType ==
    /\ Editing
    /\ \E i \in 1..Len(df), g \in {Str(<<"S", "o", "f", "T">>), None} :
          Edited([df EXCEPT ![i].ground_type = g])

EditRiskLevel ==
    /\ Editing
    /\ \E i \in 1..Len(df) : Edited([df EXCEPT ![i].risk_level = "typed"])

EditSuggestion ==
    /\ Editing
    /\ \E i \in 1..Len(df) : Edited([df EXCEPT ![i].suggestion = "typed"])

\* a new grid row: every cell empty
AddRow ==
    /\ Editing
    /\ Edited(Append(df, [id |-> 0, FL |-> NaN, ground_type |-> None,
                          risk_level |-> "", suggestion |-> "",
                          note |-> 0, text |-> "latin1"]))

DeleteRow ==
    /\ Editing
    /\ \E i \in 1..Len(df) :
          Edited([k \in 1..(Len(df) - 1) |-> IF k < i THEN df[k] ELSE df[k + 1]])

\* lines 217-219 (on a table without rows the pass has nothing to compute;
\* the script then stops in Preview at the latest)
Recompute ==
    /\ pc = "a_editor"
    /\ IF PassRaises(df)
       THEN pc' = "crashed" /\ UNCHANGED df
       ELSE pc' = "a_preview" /\ df' = derive(df)
    /\ UNCHANGED <<columns, edits, charts>>
    /\ AppFrame

\* lines 222-226: plot_fl_bar raises on a table without rows
Preview ==
    /\ pc = "a_preview"
    /\ LET r == plot_fl_bar(df) IN
       IF r.exc # "none"
       THEN pc' = "crashed" /\ UNCHANGED charts
       ELSE /\ pc' = "a_button"
            /\ charts' = [bar |-> r.img, loc |-> plot_locations_scatter(df, columns)]
    /\ UNCHANGED <<df, columns, edits>>
    /\ AppFrame

\* lines 229-231: the button calls build_pdf_booklet(edited, ...)
ClickGenerate ==
    /\ pc = "a_button"
    /\ pc' = "b_check"
    /\ UNCHANGED <<df, columns, edits, charts>>
    /\ AppFrame

NextApp ==
    \/ Upload
    \/ UseSample
    \/ EnsureColumns
    \/ EditFL
    \/ EditGroundType
    \/ EditRiskLevel
    \/ EditSuggestion
    \/ AddRow
    \/ DeleteRow
    \/ Recompute
    \/ Preview
    \/ ClickGenerate
    \/ NextBuild

SpecApp == InitApp /\ [][NextApp]_vars

(***************************************************************************)
(* Properties.                                                             *)
(***************************************************************************)

RiskLabels == {"High", "Moderate", "Low", "Unknown"}

RefRisk(x) ==
    CASE x.isna -> "Unknown"
      [] ~x.isna /\ x.v <= 74 -> "High"
      [] ~x.isna /\ x.v >= 75 /\ x.v <= 99 -> "Moderate"
      [] ~x.isna /\ x.v >= 100 -> "Low"

(***************************************************************************)
(* C1.  compute_risk_level is total and equals the reference mapping:      *)
(* missing FL -> "Unknown", FL < 0.75 -> "High", 0.75 <= FL < 1.0 ->        *)
(* "Moderate", FL >= 1.0 -> "Low"; no other label is ever returned.         *)
(***************************************************************************)
C1_RiskMapping ==
    pc \in {"risk", "returned"} =>
        /\ ret.risk_level \in RiskLabels
        /\ ret.risk_level = RefRisk(call.fl)
        /\ (call.fl = Num(75) => ret.risk_level = "Moderate")
        /\ (call.fl = Num(100) => ret.risk_level = "Low")

C1_Witness == pc = "risk" /\ call.fl = Num(75) /\ ret.risk_level = "Moderate"

\* "soft" at some position, each letter in either case (of the letters in
\* Chars only S and T have an upper-case form)
SoftAnyCase(s) ==
    \E i \in 1..(Len(s) - 3) :
        /\ s[i] \in {"s", "S"}
        /\ s[i + 1] \in {"o"}
        /\ s[i + 2] \in {"f"}
        /\ s[i + 3] \in {"t", "T"}

RefSuggest(x, s) ==
    CASE x.isna -> "Review required"
      [] ~x.isna /\ x.v < 75 -> "Pile foundation + Ground improvement"
      [] ~x.isna /\ x.v >= 75 /\ x.v < 100 -> "Raft foundation + Partial improvement"
      [] ~x.isna /\ x.v >= 100 /\ SoftAnyCase(s) -> "Raft foundation + Monitoring"
      [] ~x.isna /\ x.v >= 100 /\ ~SoftAnyCase(s) -> "Spread/Strip foundation"

(***************************************************************************)
(* C2.  For every FL and every ground-type string suggest_foundation is    *)
(* the reference mapping; the ground type matters only when FL >= 1.0,      *)
(* where "soft" in any letter case selects "Raft foundation + Monitoring".  *)
(***************************************************************************)
C2_SuggestMapping ==
    (pc = "returned" /\ call.ground_type.tag = "str") =>
        /\ ret.suggestion = Ret(RefSuggest(call.fl, call.ground_type.s))
        /\ (Lt(call.fl, Num(100)) =>
                ret.suggestion = Ret(RefSuggest(call.fl, <<>>)))

C2_Witness ==
    /\ pc = "returned"
    /\ call.fl = Num(100)
    /\ call.ground_type = Str(<<"S", "o", "f", "T">>)
    /\ ret.suggestion = Ret("Raft foundation + Monitoring")

(***************************************************************************)
(* C6.  Classification never raises, whatever FL and whatever ground-type  *)
(* value (string, empty string, None, blank-cell NaN) it is given.          *)
(***************************************************************************)
C6_NeverRaises ==
    pc = "returned" =>
        /\ ret.risk_level \in RiskLabels
        /\ ret.suggestion.exc = "none"

(***************************************************************************)
(* C3.  As claimed: the returned booklet has exactly 3 + n pages for every *)
(* non-empty table of n records, whatever its notes; automatic page        *)
(* breaking never adds a page.                                              *)
(***************************************************************************)
C3_ExactlyThreePlusN ==
    pc = "done" => result.pages = 3 + Len(df)

\* contents lines that fit under the heading, and remark lines that fit
\* under a record's fields without the coordinates line
TocLinesPerPage == (PageBreakTrigger - (TopMargin + 10 + 2)) \div 8

FitNoteLinesNoCoords == (PageBreakTrigger - (RemarksStartY - 7)) \div 6

(***************************************************************************)
(* C3, amended.  The returned booklet has at least 3 + n pages; exactly    *)
(* 3 + n when the table of contents fits its page (n <= 32) and every       *)
(* record's remarks fit the record's page (at most 37 wrapped lines); more  *)
(* than 3 + n when n >= 33 or some record's remarks wrap to 40 lines or     *)
(* more.  (Every suggestion of suggest_foundation fits one line.)           *)
(***************************************************************************)
C3_PageCount ==
    pc = "done" =>
        /\ result.pages >= 3 + Len(df)
        /\ (Len(df) <= TocLinesPerPage /\ \A i \in 1..Len(df) : df[i].note <= FitNoteLines)
              => result.pages = 3 + Len(df)
        /\ (Len(df) > TocLinesPerPage \/ \E i \in 1..Len(df) : df[i].note > FitNoteLinesNoCoords)
              => result.pages > 3 + Len(df)

C3_Witness ==
    /\ pc = "done"
    /\ Len(df) = TocLinesPerPage + 1
    /\ \A i \in 1..Len(df) : df[i].note = 0
    /\ result.pages = 4 + Len(df)

(***************************************************************************)
(* C4.  build_pdf_booklet on an empty table raises "Cannot generate        *)
(* report: No site data provided" before any chart is rendered, any        *)
(* temporary file is written or any page is allocated, and returns no      *)
(* bytes; no call ever returns a document without pages.                    *)
(***************************************************************************)
C4_EmptyTableRefused ==
    /\ Len(df) = 0 => pc \in {"b_check", "raised"}
    /\ (Len(df) = 0 /\ pc = "raised") =>
          /\ result = [exc |-> EmptyTableError, pages |-> 0]
          /\ charts = NoCharts
          /\ tmpfiles = {}
          /\ paths = NoPaths
          /\ pdf = NewPdf
    /\ pc = "done" => result.pages > 0 /\ Len(df) > 0

C4_Witness == pc = "raised" /\ Len(df) = 0 /\ result.exc = EmptyTableError

BeforeCharts == {"a_intake", "a_ensure", "a_editor", "crashed"}

Step(e) == [step |-> e.step, i |-> e.i, id |-> e.id]

Steps(log) ==
    LET own == SelectSeq(log, LAMBDA e : e.step # "auto")
    IN  [k \in 1..Len(own) |-> Step(own[k])]

ExpectedSteps(table) ==
    <<[step |-> "cover", i |-> 0, id |-> 0], [step |-> "toc", i |-> 0, id |-> 0]>>
    \o [k \in 1..Len(table) |-> [step |-> "toc_line", i |-> k, id |-> table[k].id]]
    \o <<[step |-> "overview", i |-> 0, id |-> 0]>>
    \o [k \in 1..Len(table) |-> [step |-> "site", i |-> k, id |-> table[k].id]]

(***************************************************************************)
(* C7.  For any non-empty table the call emits cover, table of contents,   *)
(* overview and site pages in this order, each once and none skipped, with  *)
(* one contents line and one site page per record, in table order.          *)
(***************************************************************************)
C7_StepsInOrder ==
    (pc \in {"done", "raised"} /\ Len(df) > 0) => Steps(pdf.log) = ExpectedSteps(df)

(***************************************************************************)
(* C8.  No temporary PNG written for a build outlives the call: when the   *)
(* call has returned or failed, no temporary file is left.                  *)
(***************************************************************************)
C8_NoTempFileLeft ==
    pc \in {"done", "raised"} => tmpfiles = {}

(***************************************************************************)
(* C9.  The upper bound of the bar chart's y-axis is at least 1.2 and at   *)
(* least FL + 0.1 for every non-missing FL of the table.                    *)
(***************************************************************************)
C9_AxisCoversBars ==
    charts.bar.kind = "bar" =>
        /\ ~charts.bar.ylim.isna
        /\ charts.bar.ylim.v >= 120
        /\ \A i \in 1..Len(df) :
              ~df[i].FL.isna => charts.bar.ylim.v >= df[i].FL.v + 10

HasPair == Cardinality(columns \cap {"lat", "lon"}) = 2

SiteEvents == {k \in 1..Len(pdf.log) : pdf.log[k].step = "site"}

(***************************************************************************)
(* C10.  The scatter chart is the placeholder exactly when the table does  *)
(* not have both a lat and a lon column, and every site page carries the    *)
(* coordinates line exactly when it has both; so a finished booklet shows a *)
(* real scatter plot iff all its site pages show a coordinates line.        *)
(***************************************************************************)
C10_CoordinatesPairOnly ==
    /\ charts.loc.kind # "none" => (charts.loc.kind = "placeholder" <=> ~HasPair)
    /\ \A k \in SiteEvents : pdf.log[k].coords = HasPair
    /\ pc = "done" =>
          /\ Len(pdf.images) = 2
          /\ (pdf.images[2].kind = "scatter" <=> \A k \in SiteEvents : pdf.log[k].coords)

C10_Witness ==
    /\ pc = "done"
    /\ columns = {"lat"}
    /\ pdf.images[2].kind = "placeholder"
    /\ SiteEvents # {}
    /\ \A k \in SiteEvents : ~pdf.log[k].coords

====
